---- MODULE Spec2Model ----
(***************************************************************************)
(* Model of crates/rbuilder/src/live_builder/cli.rs: the `run` entry point *)
(* (command dispatch, layered configuration, telemetry start-up, builder   *)
(* construction, the ctrl-c listener task and the final joins).            *)
(*                                                                         *)
(* Option<T> values are modelled as sequences: <<>> is None, <<v>> is      *)
(* Some(v).                                                                *)
(***************************************************************************)
EXTENDS Integers, Sequences, FiniteSets, TLC

\* ------------------------------------------------------------------ bounds
\* number of external interrupts (SIGINT) the environment may deliver
MaxInterrupts == 2

\* ------------------------------------------------------------- input sets
None == <<>>

Some(v) == <<v>>

\* enum Cli: the four sub-commands clap accepts
Verbs == {"run", "config", "version", "sysperf"}

\* what may be typed on the command line: a known verb or anything else
CmdLines == Verbs \cup {"bogus"}

\* values a configuration document may give to the modelled fields
FilePorts == {0, 8645}

\* values the --jsonrpc-server-port flag may carry
CliPorts == {0, 9000}

\* the configuration type, reduced to one u16 and one bool field that
\* BaseCliArgs can override and one bool field that L1CliArgs can override
Configs ==
  [jsonrpc_server_port : FilePorts \cup CliPorts, log_json : BOOLEAN, dry_run : BOOLEAN]

FileConfigs ==
  [jsonrpc_server_port : FilePorts, log_json : BOOLEAN, dry_run : BOOLEAN]

\* struct BaseCliArgs (fields jsonrpc_server_port, log_json)
BaseCliArgs ==
  [jsonrpc_server_port : {None} \cup {Some(p) : p \in CliPorts},
   log_json : {None} \cup {Some(b) : b \in BOOLEAN}]

\* struct L1CliArgs (field dry_run)
L1CliArgs == [dry_run : {None} \cup {Some(b) : b \in BOOLEAN}]

\* #[derive(Default)]: every field None
EmptyBaseCliArgs == [jsonrpc_server_port |-> None, log_json |-> None]

EmptyL1CliArgs == [dry_run |-> None]

BaseFields == {"jsonrpc_server_port", "log_json"}

L1Fields == {"dry_run"}

\* --------------------------------------------------------- MergeFromCli
\* one field of a merge: overwrite iff the delta carries a value
MergeField(b, o) == IF o # None THEN o[1] ELSE b

\* impl MergeFromCli<BaseCliArgs> for the configuration
MergeBaseArgs(c, d) ==
  [c EXCEPT !.jsonrpc_server_port = MergeField(@, d.jsonrpc_server_port),
            !.log_json = MergeField(@, d.log_json)]

\* impl MergeFromCli<L1CliArgs> for the configuration
MergeL1Args(c, d) == [c EXCEPT !.dry_run = MergeField(@, d.dry_run)]

\* {:#?} formatting of the configuration: field names with their values
DebugFmt(c) ==
  << <<"jsonrpc_server_port", c.jsonrpc_server_port>>,
     <<"log_json", c.log_json>>,
     <<"dry_run", c.dry_run>> >>

\* a cancel that flips the flag instead of setting it
CancelOp_Toggle(flag) == ~flag

\* CancellationToken::cancel on the token's flag: sets it, never clears it
CancelOp(flag) == TRUE

VARIABLES
  pc,            \* position of the coordinator inside run()
  result,        \* "none" while running, then "Ok" | "Err" | "Usage"
  onRun,         \* on_run: Option<fn()> is Some
  verb,          \* the parsed Cli variant, "none" before parsing
  base,          \* cli.base : BaseCliArgs
  l1,            \* cli.l1 : L1CliArgs
  fileConfig,    \* Option: what load_config_toml_and_env returned
  config,        \* Option: the local `config`
  prevConfig,    \* Option: `config` as it was before the latest merge
  mergeLog,      \* sequence of the deltas merged so far
  configReads,   \* set of <<use, Len(mergeLog) at the time of the read>>
  tracing,       \* setup_tracing_subscriber succeeded
  cancelCreated, \* number of CancellationToken::new() calls
  cancelled,     \* flag of the token
  builderHandle, \* token clone held by the builder (0 = none)
  ctrlcHandle,   \* token moved into the ctrl-c task (0 = none)
  redacted,      \* redacted telemetry server
  full,          \* full telemetry server
  providers,     \* number of provider factories created
  builders,      \* number of builders constructed
  onRunCalls,    \* number of on_run() calls
  builderTask,   \* builder.run(): "notStarted" | "running" | "doneOk" | "doneErr"
  ctrlcTask,     \* "none" | "spawned" | "waiting" | "woken" | "cancelled" | "done"
  ctrlcWake,     \* why ctrl_c().await resolved: "none" | "interrupt" | "error"
  sigint,        \* the runtime's SIGINT handler is installed
  interrupts,    \* external interrupts delivered so far
  versionCalls,  \* number of print_version_info() calls
  benchRuns,     \* number of run_all_benchmarks calls
  printed        \* sequence of things written to stdout

vars ==
  <<pc, result, onRun, verb, base, l1, fileConfig, config, prevConfig, mergeLog, configReads,
    tracing, cancelCreated, cancelled, builderHandle, ctrlcHandle, redacted, full,
    providers, builders, onRunCalls, builderTask, ctrlcTask, ctrlcWake, sigint,
    interrupts, versionCalls, benchRuns, printed>>

cfgVars == <<fileConfig, config, prevConfig, mergeLog>>

cliVars == <<onRun, verb, base, l1>>

telVars == <<redacted, full>>

tokVars == <<cancelCreated, cancelled, builderHandle, ctrlcHandle>>

taskVars == <<builderTask, ctrlcTask, ctrlcWake, sigint>>

miscVars == <<tracing, providers, builders, onRunCalls, versionCalls, benchRuns, printed>>

Init ==
  /\ pc = "Parse"
  /\ result = "none"
  /\ onRun \in BOOLEAN
  /\ verb = "none"
  /\ base = EmptyBaseCliArgs
  /\ l1 = EmptyL1CliArgs
  /\ fileConfig = None
  /\ config = None
  /\ prevConfig = None
  /\ mergeLog = <<>>
  /\ configReads = {}
  /\ tracing = FALSE
  /\ cancelCreated = 0
  /\ cancelled = FALSE
  /\ builderHandle = 0
  /\ ctrlcHandle = 0
  /\ redacted = "notStarted"
  /\ full = "notStarted"
  /\ providers = 0
  /\ builders = 0
  /\ onRunCalls = 0
  /\ builderTask = "notStarted"
  /\ ctrlcTask = "none"
  /\ ctrlcWake = "none"
  /\ sigint = FALSE
  /\ interrupts = 0
  /\ versionCalls = 0
  /\ benchRuns = 0
  /\ printed = <<>>

\* the process is still executing (not exited by clap, not killed by a signal)
Alive == pc \notin {"Exited", "Killed"}

\* `return Err(..)` / the `?` operator
ReturnErr == pc' = "Done" /\ result' = "Err"

\* `return Ok(())`
ReturnOk == pc' = "Done" /\ result' = "Ok"

\* a read of `config`, recorded with the number of merges done before it
ReadConfig(use) == configReads' = configReads \cup {<<use, Len(mergeLog)>>}

\* ------------------------------------------------------------ dispatcher
\* the Version arm without its `return`: it falls through into the run path
Dispatch_FallThrough(v) ==
  CASE v = "run" -> "LoadConfig"
    [] v = "config" -> "CfgLoad"
    [] v = "version" -> "LoadConfig"
    [] v = "sysperf" -> "SysPerf"

\* match cli { Run => fall through, Config | Version | SysPerf => own arm }
Dispatch(v) ==
  CASE v = "run" -> "LoadConfig"
    [] v = "config" -> "CfgLoad"
    [] v = "version" -> "Version"
    [] v = "sysperf" -> "SysPerf"

\* let cli = Cli::parse(): an unknown verb or bad arguments make clap print
\* the usage error and exit the process; a RunCmd carries both deltas
Parse ==
  /\ pc = "Parse"
  /\ \E line \in CmdLines :
       IF line \in Verbs
         THEN /\ verb' = line
              /\ pc' = Dispatch(line)
              /\ result' = result
              /\ IF line \in {"run", "config"}
                   THEN /\ base' \in BaseCliArgs
                        /\ l1' \in L1CliArgs
                   ELSE UNCHANGED <<base, l1>>
         ELSE /\ pc' = "Exited"
              /\ result' = "Usage"
              /\ UNCHANGED <<verb, base, l1>>
  /\ UNCHANGED <<onRun, cfgVars, configReads, telVars, tokVars, taskVars, miscVars, interrupts>>

\* Cli::Version => { print_version_info(); return Ok(()) }
Version ==
  /\ pc = "Version"
  /\ versionCalls' = versionCalls + 1
  /\ ReturnOk
  /\ UNCHANGED <<cliVars, cfgVars, configReads, telVars, tokVars, taskVars, interrupts,
                 tracing, providers, builders, onRunCalls, benchRuns, printed>>

\* Cli::SysPerf => run_all_benchmarks(..)?; gather_system_info(); println!
SysPerf ==
  /\ pc = "SysPerf"
  /\ benchRuns' = benchRuns + 1
  /\ \E ok \in BOOLEAN :
       IF ok
         THEN printed' = Append(printed, <<"sysperf">>) /\ ReturnOk
         ELSE printed' = printed /\ ReturnErr
  /\ UNCHANGED <<cliVars, cfgVars, configReads, telVars, tokVars, taskVars, interrupts,
                 tracing, providers, builders, onRunCalls, versionCalls>>

\* ------------------------------------------- configuration, both verbs
\* the load without `?`: a failed load goes on with a default configuration
Load_IgnoreErr(at, next) ==
  /\ pc = at
  /\ \/ \E doc \in FileConfigs :
          fileConfig' = Some(doc) /\ config' = Some(doc)
     \/ /\ fileConfig' = fileConfig
        /\ config' = Some([jsonrpc_server_port |-> 0, log_json |-> FALSE, dry_run |-> FALSE])
  /\ pc' = next
  /\ UNCHANGED <<result, cliVars, prevConfig, mergeLog, configReads, telVars, tokVars,
                 taskVars, miscVars, interrupts>>

\* let mut config = load_config_toml_and_env(cli.config)?
Load(at, next) ==
  /\ pc = at
  /\ \/ \E doc \in FileConfigs :
          /\ fileConfig' = Some(doc)
          /\ config' = Some(doc)
          /\ pc' = next
          /\ result' = result
     \/ /\ ReturnErr
        /\ UNCHANGED <<fileConfig, config>>
  /\ UNCHANGED <<cliVars, prevConfig, mergeLog, configReads, telVars, tokVars, taskVars,
                 miscVars, interrupts>>

\* a merge of the general delta that leaves every field as it was
MergeBase_NoOverwrite(at, next) ==
  /\ pc = at
  /\ config' = config
  /\ prevConfig' = config
  /\ mergeLog' = Append(mergeLog, "base")
  /\ pc' = next
  /\ UNCHANGED <<result, cliVars, fileConfig, configReads, telVars, tokVars, taskVars,
                 miscVars, interrupts>>

\* config.merge(&cli.base)
MergeBase(at, next) ==
  /\ pc = at
  /\ config' = Some(MergeBaseArgs(config[1], base))
  /\ prevConfig' = config
  /\ mergeLog' = Append(mergeLog, "base")
  /\ pc' = next
  /\ UNCHANGED <<result, cliVars, fileConfig, configReads, telVars, tokVars, taskVars,
                 miscVars, interrupts>>

\* config.merge(&cli.l1)
MergeL1(at, next) ==
  /\ pc = at
  /\ config' = Some(MergeL1Args(config[1], l1))
  /\ prevConfig' = config
  /\ mergeLog' = Append(mergeLog, "l1")
  /\ pc' = next
  /\ UNCHANGED <<result, cliVars, fileConfig, configReads, telVars, tokVars, taskVars,
                 miscVars, interrupts>>

CfgLoad == Load("CfgLoad", "CfgMergeBase")

CfgMergeBase == MergeBase("CfgMergeBase", "CfgMergeL1")

\* line 185 left out: the config verb prints after the first merge only
CfgMergeL1_Skipped ==
  /\ pc = "CfgMergeL1"
  /\ mergeLog' = Append(mergeLog, "l1")
  /\ prevConfig' = config
  /\ pc' = "CfgPrint"
  /\ UNCHANGED <<result, cliVars, fileConfig, config, configReads, telVars, tokVars,
                 taskVars, miscVars, interrupts>>

CfgMergeL1 == MergeL1("CfgMergeL1", "CfgPrint")

\* println!("{:#?}", config); return Ok(())
CfgPrint ==
  /\ pc = "CfgPrint"
  /\ ReadConfig("print")
  /\ printed' = Append(printed, <<"config", DebugFmt(config[1])>>)
  /\ ReturnOk
  /\ UNCHANGED <<cliVars, cfgVars, telVars, tokVars, taskVars, interrupts, tracing,
                 providers, builders, onRunCalls, versionCalls, benchRuns>>

\* ------------------------------------------------ the `run` verb: start-up
RunLoad == Load("LoadConfig", "MergeBase")

\* line 204 merging &cli.l1 instead of &cli.base
RunMergeBase_AsL1 == MergeL1("MergeBase", "MergeL1")

RunMergeBase == MergeBase("MergeBase", "MergeL1")

\* line 205 left out: tracing is set up right after the first merge
RunMergeL1_Skipped ==
  /\ pc = "MergeL1"
  /\ pc' = "SetupTracing"
  /\ UNCHANGED <<result, cliVars, cfgVars, configReads, telVars, tokVars, taskVars,
                 miscVars, interrupts>>

RunMergeL1 == MergeL1("MergeL1", "SetupTracing")

\* config.base_config().setup_tracing_subscriber()?
SetupTracing ==
  /\ pc = "SetupTracing"
  /\ ReadConfig("tracing")
  /\ \/ tracing' = TRUE /\ pc' = "NewCancel" /\ result' = result
     \/ tracing' = tracing /\ ReturnErr
  /\ UNCHANGED <<cliVars, cfgVars, telVars, tokVars, taskVars, interrupts, providers,
                 builders, onRunCalls, versionCalls, benchRuns, printed>>

\* the ctrl-c task spawned together with the token, before start-up is over
NewCancel_SpawnEarly ==
  /\ pc = "NewCancel"
  /\ cancelCreated' = cancelCreated + 1
  /\ cancelled' = FALSE
  /\ ctrlcTask' = "spawned"
  /\ ctrlcHandle' = cancelCreated + 1
  /\ pc' = "SpawnRedacted"
  /\ UNCHANGED <<result, cliVars, cfgVars, configReads, telVars, builderHandle, builderTask,
                 ctrlcWake, sigint, miscVars, interrupts>>

\* let cancel = CancellationToken::new()
NewCancel ==
  /\ pc = "NewCancel"
  /\ cancelCreated' = cancelCreated + 1
  /\ cancelled' = FALSE
  /\ pc' = "SpawnRedacted"
  /\ UNCHANGED <<result, cliVars, cfgVars, configReads, telVars, builderHandle,
                 ctrlcHandle, taskVars, miscVars, interrupts>>

\* telemetry::servers::redacted::spawn(config...redacted_telemetry_server_address())
SpawnRedacted ==
  /\ pc = "SpawnRedacted"
  /\ ReadConfig("redacted_address")
  /\ redacted' = "spawning"
  /\ pc' = "AwaitRedacted"
  /\ UNCHANGED <<result, cliVars, cfgVars, full, tokVars, taskVars, miscVars, interrupts>>

\* the redacted spawn awaited without `?`: a failure does not stop start-up
AwaitRedacted_NoCheck ==
  /\ pc = "AwaitRedacted"
  /\ redacted' \in {"ok", "failed"}
  /\ pc' = "SpawnFull"
  /\ UNCHANGED <<result, cliVars, cfgVars, configReads, full, tokVars, taskVars, miscVars,
                 interrupts>>

\* .await? of the redacted spawn
AwaitRedacted ==
  /\ pc = "AwaitRedacted"
  /\ \/ redacted' = "ok" /\ pc' = "SpawnFull" /\ result' = result
     \/ redacted' = "failed" /\ ReturnErr
  /\ UNCHANGED <<cliVars, cfgVars, configReads, full, tokVars, taskVars, miscVars,
                 interrupts>>

\* telemetry::servers::full::spawn(address, version_for_telemetry, log_enable_dynamic)
SpawnFull ==
  /\ pc = "SpawnFull"
  /\ ReadConfig("full_address")
  /\ full' = "spawning"
  /\ pc' = "AwaitFull"
  /\ UNCHANGED <<result, cliVars, cfgVars, redacted, tokVars, taskVars, miscVars,
                 interrupts>>

\* the full spawn awaited without `?`: a failure does not stop start-up
AwaitFull_NoCheck ==
  /\ pc = "AwaitFull"
  /\ full' \in {"ok", "failed"}
  /\ pc' = "CreateProvider"
  /\ UNCHANGED <<result, cliVars, cfgVars, configReads, redacted, tokVars, taskVars,
                 miscVars, interrupts>>

\* .await? of the full spawn
AwaitFull ==
  /\ pc = "AwaitFull"
  /\ \/ full' = "ok" /\ pc' = "CreateProvider" /\ result' = result
     \/ full' = "failed" /\ ReturnErr
  /\ UNCHANGED <<cliVars, cfgVars, configReads, redacted, tokVars, taskVars, miscVars,
                 interrupts>>

\* let provider = config.base_config().create_provider_factory()?
CreateProvider ==
  /\ pc = "CreateProvider"
  /\ ReadConfig("provider")
  /\ \/ providers' = providers + 1 /\ pc' = "NewBuilder" /\ result' = result
     \/ providers' = providers /\ ReturnErr
  /\ UNCHANGED <<cliVars, cfgVars, telVars, tokVars, taskVars, interrupts, tracing,
                 builders, onRunCalls, versionCalls, benchRuns, printed>>

\* new_builder awaited without `?`: a failed construction does not stop run()
NewBuilder_NoCheck ==
  /\ pc = "NewBuilder"
  /\ ReadConfig("new_builder")
  /\ \/ builders' = builders + 1 /\ builderHandle' = cancelCreated
     \/ UNCHANGED <<builders, builderHandle>>
  /\ pc' = "SpawnCtrlc"
  /\ UNCHANGED <<result, cliVars, cfgVars, telVars, cancelCreated, cancelled, ctrlcHandle,
                 taskVars, interrupts, tracing, providers, onRunCalls, versionCalls,
                 benchRuns, printed>>

\* the builder given CancellationToken::new() instead of cancel.clone()
NewBuilder_FreshToken ==
  /\ pc = "NewBuilder"
  /\ ReadConfig("new_builder")
  /\ \/ /\ builders' = builders + 1
        /\ cancelCreated' = cancelCreated + 1
        /\ builderHandle' = cancelCreated + 1
        /\ pc' = "SpawnCtrlc"
        /\ result' = result
     \/ /\ UNCHANGED <<builders, builderHandle, cancelCreated>>
        /\ ReturnErr
  /\ UNCHANGED <<cliVars, cfgVars, telVars, cancelled, ctrlcHandle, taskVars, interrupts,
                 tracing, providers, onRunCalls, versionCalls, benchRuns, printed>>

\* let builder = config.new_builder(provider, cancel.clone()).await?
NewBuilder ==
  /\ pc = "NewBuilder"
  /\ ReadConfig("new_builder")
  /\ \/ /\ builders' = builders + 1
        /\ builderHandle' = cancelCreated
        /\ pc' = "SpawnCtrlc"
        /\ result' = result
     \/ /\ UNCHANGED <<builders, builderHandle>>
        /\ ReturnErr
  /\ UNCHANGED <<cliVars, cfgVars, telVars, cancelCreated, cancelled, ctrlcHandle,
                 taskVars, interrupts, tracing, providers, onRunCalls, versionCalls,
                 benchRuns, printed>>

\* ------------------------------------------------- the `run` verb: running
\* let ctrlc = tokio::spawn(async move { .. }): the task owns `cancel`
SpawnCtrlc ==
  /\ pc = "SpawnCtrlc"
  /\ ctrlcTask' = "spawned"
  /\ ctrlcHandle' = cancelCreated
  /\ pc' = "OnRun"
  /\ UNCHANGED <<result, cliVars, cfgVars, configReads, telVars, cancelCreated, cancelled,
                 builderHandle, builderTask, ctrlcWake, sigint, miscVars, interrupts>>

\* the hook called without looking at the Option
OnRun_Unconditional ==
  /\ pc = "OnRun"
  /\ onRunCalls' = onRunCalls + 1
  /\ pc' = "StartRun"
  /\ UNCHANGED <<result, cliVars, cfgVars, configReads, telVars, tokVars, taskVars,
                 interrupts, tracing, providers, builders, versionCalls, benchRuns, printed>>

\* if let Some(on_run) = on_run { on_run(); }
OnRun ==
  /\ pc = "OnRun"
  /\ onRunCalls' = IF onRun THEN onRunCalls + 1 ELSE onRunCalls
  /\ pc' = "StartRun"
  /\ UNCHANGED <<result, cliVars, cfgVars, configReads, telVars, tokVars, taskVars,
                 interrupts, tracing, providers, builders, versionCalls, benchRuns, printed>>

\* builder.run(): the run operation starts
StartRun ==
  /\ pc = "StartRun"
  /\ builderTask' = "running"
  /\ pc' = "AwaitRun"
  /\ UNCHANGED <<result, cliVars, cfgVars, configReads, telVars, tokVars, ctrlcTask,
                 ctrlcWake, sigint, miscVars, interrupts>>

\* builder.run() awaited without `?`: its Err is dropped
AwaitRun_IgnoreErr ==
  /\ pc = "AwaitRun"
  /\ builderTask \in {"doneOk", "doneErr"}
  /\ pc' = "AwaitCtrlc"
  /\ UNCHANGED <<result, cliVars, cfgVars, configReads, telVars, tokVars, taskVars,
                 miscVars, interrupts>>

\* .await? of builder.run(): an Err returns at once, Ok goes on to the join
AwaitRun ==
  /\ pc = "AwaitRun"
  /\ builderTask \in {"doneOk", "doneErr"}
  /\ IF builderTask = "doneErr"
       THEN ReturnErr
       ELSE pc' = "AwaitCtrlc" /\ result' = result
  /\ UNCHANGED <<cliVars, cfgVars, configReads, telVars, tokVars, taskVars, miscVars,
                 interrupts>>

\* Ok(()) returned without joining the ctrl-c task
AwaitCtrlc_NoWait ==
  /\ pc = "AwaitCtrlc"
  /\ ReturnOk
  /\ UNCHANGED <<cliVars, cfgVars, configReads, telVars, tokVars, taskVars, miscVars,
                 interrupts>>

\* ctrlc.await.unwrap_or_default(); Ok(())
AwaitCtrlc ==
  /\ pc = "AwaitCtrlc"
  /\ ctrlcTask = "done"
  /\ ReturnOk
  /\ UNCHANGED <<cliVars, cfgVars, configReads, telVars, tokVars, taskVars, miscVars,
                 interrupts>>

\* ------------------------------------------------------ the ctrl-c task
\* first poll of ctrl_c(): the runtime installs its SIGINT handler and the
\* task waits, or registering fails and the future resolves to Err
ListenerStart ==
  /\ Alive
  /\ ctrlcTask = "spawned"
  /\ \/ sigint' = TRUE /\ ctrlcTask' = "waiting" /\ ctrlcWake' = ctrlcWake
     \/ sigint' = sigint /\ ctrlcTask' = "woken" /\ ctrlcWake' = "error"
  /\ UNCHANGED <<pc, result, cliVars, cfgVars, configReads, telVars, tokVars, builderTask,
                 miscVars, interrupts>>

\* the task ending without calling cancel.cancel()
ListenerCancel_NoCancel ==
  /\ Alive
  /\ ctrlcTask = "woken"
  /\ ctrlcTask' = "cancelled"
  /\ UNCHANGED <<pc, result, cliVars, cfgVars, configReads, telVars, tokVars, builderTask,
                 ctrlcWake, sigint, miscVars, interrupts>>

\* .unwrap_or_default() discards the io::Result; then cancel.cancel()
ListenerCancel ==
  /\ Alive
  /\ ctrlcTask = "woken"
  /\ cancelled' = CancelOp(cancelled)
  /\ ctrlcTask' = "cancelled"
  /\ UNCHANGED <<pc, result, cliVars, cfgVars, configReads, telVars, cancelCreated,
                 builderHandle, ctrlcHandle, builderTask, ctrlcWake, sigint, miscVars,
                 interrupts>>

\* the async block ends: the JoinHandle becomes ready
ListenerFinish ==
  /\ Alive
  /\ ctrlcTask = "cancelled"
  /\ ctrlcTask' = "done"
  /\ UNCHANGED <<pc, result, cliVars, cfgVars, configReads, telVars, tokVars, builderTask,
                 ctrlcWake, sigint, miscVars, interrupts>>

\* ------------------------------------------------------------ environment
\* an external interrupt. With the runtime's handler installed it wakes a
\* waiting ctrl_c() and is swallowed otherwise; before that the process's own
\* SIGINT disposition applies: the process is killed or the signal is lost.
Interrupt ==
  /\ Alive
  /\ pc # "Done" \/ ctrlcTask = "waiting"
  /\ interrupts < MaxInterrupts
  /\ interrupts' = interrupts + 1
  /\ IF sigint
       THEN /\ IF ctrlcTask = "waiting"
                 THEN ctrlcTask' = "woken" /\ ctrlcWake' = "interrupt"
                 ELSE UNCHANGED <<ctrlcTask, ctrlcWake>>
            /\ pc' = pc
       ELSE /\ pc' \in {"Killed", pc}
            /\ UNCHANGED <<ctrlcTask, ctrlcWake>>
  /\ UNCHANGED <<result, cliVars, cfgVars, configReads, telVars, tokVars, builderTask,
                 sigint, miscVars>>

\* the outcome of builder.run()
FinishRun ==
  /\ builderTask' \in {"doneOk", "doneErr"}
  /\ UNCHANGED <<pc, result, cliVars, cfgVars, configReads, telVars, tokVars, ctrlcTask,
                 ctrlcWake, sigint, miscVars, interrupts>>

\* builder.run() ends on its own account
BuilderFinish ==
  /\ Alive
  /\ builderTask = "running"
  /\ FinishRun

\* builder.run() sees its token cancelled and ends
BuilderObserveCancel ==
  /\ Alive
  /\ builderTask = "running"
  /\ builderHandle = ctrlcHandle /\ cancelled
  /\ FinishRun

\* ---------------------------------------------------------- specification
Coordinator ==
  \/ Parse \/ Version \/ SysPerf
  \/ CfgLoad \/ CfgMergeBase \/ CfgMergeL1 \/ CfgPrint
  \/ RunLoad \/ RunMergeBase \/ RunMergeL1 \/ SetupTracing \/ NewCancel
  \/ SpawnRedacted \/ AwaitRedacted \/ SpawnFull \/ AwaitFull
  \/ CreateProvider \/ NewBuilder \/ SpawnCtrlc \/ OnRun \/ StartRun
  \/ AwaitRun \/ AwaitCtrlc

Listener == ListenerStart \/ ListenerCancel \/ ListenerFinish

Next ==
  \/ Coordinator
  \/ Listener
  \/ BuilderObserveCancel
  \/ BuilderFinish
  \/ Interrupt

Spec == Init /\ [][Next]_vars

\* the tokio scheduler runs every ready task: the coordinator, the ctrl-c
\* task, and a builder that has been told to stop. Interrupts and a builder
\* ending on its own account are up to the environment.
Fairness ==
  /\ WF_vars(Coordinator)
  /\ WF_vars(Listener)
  /\ WF_vars(BuilderObserveCancel)

FairSpec == Spec /\ Fairness

\* ---------------------------------------------------------------- claims
\* builder.run() has ended, with either outcome
BuilderDone == builderTask \in {"doneOk", "doneErr"}

\* the spec's Running: the run operation was started and the ctrl-c task spawned
ReachedRunning == verb = "run" /\ builderTask # "notStarted" /\ ctrlcTask # "none"

\* a delta carries a value for field f
Carries(d, f) == f \in DOMAIN d /\ d[f] # None

\* C1: once Running was reached, run() returns only after both the builder's
\* run operation and the ctrl-c task have finished, also when the run
\* operation ended with an error.
C1_ReturnsAfterBothTasks ==
  (pc = "Done" /\ ReachedRunning) => (BuilderDone /\ ctrlcTask = "done")

\* C2: the full telemetry spawn has begun only if the redacted spawn has
\* completed successfully; the two are never in flight together.
C2_RedactedBeforeFull ==
  /\ full # "notStarted" => redacted = "ok"
  /\ redacted = "spawning" => full = "notStarted"

C2_Witness == full = "spawning" /\ redacted = "ok"

C4_TelemetryFailureIsFatal ==
  (redacted = "failed" \/ full = "failed") =>
    /\ pc = "Done"
    /\ result = "Err"
    /\ providers = 0
    /\ builders = 0
    /\ builderHandle = 0
    /\ ctrlcTask = "none"
    /\ onRunCalls = 0
    /\ builderTask = "notStarted"

C4_Witness == pc = "Done" /\ redacted = "ok" /\ full = "failed"

\* C5: every read of the configuration happens after the load and both
\* merges (general, then domain-specific), and nothing changes the
\* configuration once the second merge is done.
C5_ConfigReadOnlyAfterMerges ==
  [][/\ configReads' # configReads =>
          /\ config # None
          /\ mergeLog = <<"base", "l1">>
          /\ \A r \in configReads' : r[2] = 2
     /\ Len(mergeLog) = 2 => cfgVars' = cfgVars]_vars

C5_Witness ==
  /\ verb = "run"
  /\ {<<"tracing", 2>>, <<"redacted_address", 2>>, <<"full_address", 2>>,
      <<"provider", 2>>, <<"new_builder", 2>>} \subseteq configReads

\* C6: the general delta is merged first and the domain-specific one second,
\* the resolved configuration is merge(merge(B, D1), D2): a field D2 carries
\* has D2's value, else a field D1 carries has D1's value, else B's value.
C6_MergeOrder ==
  /\ Len(mergeLog) >= 1 => mergeLog[1] = "base"
  /\ Len(mergeLog) <= 2
  /\ Len(mergeLog) = 2 =>
       /\ mergeLog = <<"base", "l1">>
       /\ config = Some(MergeL1Args(MergeBaseArgs(fileConfig[1], base), l1))
       /\ \A f \in DOMAIN config[1] :
            config[1][f] = IF Carries(l1, f) THEN l1[f][1]
                           ELSE IF Carries(base, f) THEN base[f][1]
                           ELSE fileConfig[1][f]

C6_Witness ==
  /\ Len(mergeLog) = 2
  /\ fileConfig[1].jsonrpc_server_port = 8645
  /\ base.jsonrpc_server_port = Some(9000)
  /\ l1.dry_run = Some(~fileConfig[1].dry_run)

\* the delta of the latest merge
LastDelta == IF mergeLog[Len(mergeLog)] = "base" THEN base ELSE l1

\* C7: after a merge every field has the delta's value when the delta carries
\* one (zero and false included) and the value it had before otherwise; an
\* empty delta changes nothing; file port 8645 with override 9000 gives 9000.
C7_MergeOverwritesIffPresent ==
  Len(mergeLog) >= 1 =>
    /\ \A f \in DOMAIN config[1] :
         config[1][f] = IF Carries(LastDelta, f) THEN LastDelta[f][1]
                        ELSE prevConfig[1][f]
    /\ (\A f \in DOMAIN LastDelta : LastDelta[f] = None) => config = prevConfig
    /\ (/\ mergeLog = <<"base">>
        /\ fileConfig[1].jsonrpc_server_port = 8645
        /\ base.jsonrpc_server_port = Some(9000)) => config[1].jsonrpc_server_port = 9000

C7_Witness ==
  /\ mergeLog = <<"base">>
  /\ fileConfig[1].jsonrpc_server_port = 8645
  /\ base.jsonrpc_server_port = Some(0)
  /\ base.log_json = None
  /\ config[1].jsonrpc_server_port = 0

\* nothing of the run lifecycle has happened
NoLifecycle ==
  /\ ~tracing
  /\ cancelCreated = 0
  /\ redacted = "notStarted"
  /\ full = "notStarted"
  /\ providers = 0
  /\ builders = 0
  /\ onRunCalls = 0
  /\ builderTask = "notStarted"
  /\ ctrlcTask = "none"

\* C8: each invocation has exactly one outcome. version calls the printer
\* once and loads nothing; config prints the resolved configuration; sysperf
\* runs the benchmarks and prints; a usage error comes before any effect;
\* and only the run verb spawns telemetry, creates the cancellation signal,
\* constructs a builder or spawns the ctrl-c task.
C8_DispatchOutcomes ==
  /\ verb # "run" => NoLifecycle
  /\ verb # "version" => versionCalls = 0
  /\ verb # "sysperf" => benchRuns = 0
  /\ verb \notin {"run", "config"} => fileConfig = None /\ config = None
  /\ verb \notin {"config", "sysperf"} => printed = <<>>
  /\ result = "Usage" =>
       pc = "Exited" /\ verb = "none" /\ versionCalls = 0 /\ benchRuns = 0
  /\ (verb = "version" /\ pc = "Done") => versionCalls = 1 /\ result = "Ok"
  /\ (verb = "sysperf" /\ pc = "Done") =>
       /\ benchRuns = 1
       /\ printed = IF result = "Ok" THEN << <<"sysperf">> >> ELSE <<>>
  /\ (verb = "config" /\ pc = "Done") =>
       IF result = "Ok"
         THEN /\ mergeLog = <<"base", "l1">>
              /\ printed = << <<"config", DebugFmt(config[1])>> >>
         ELSE fileConfig = None /\ printed = <<>>

C8_Witness == verb = "version" /\ pc = "Done" /\ versionCalls = 1

\* C9: a triggered cancellation signal stays triggered in every later state,
\* and triggering it again would leave it as it is.
C9_CancelIsTerminal ==
  [][cancelled => (cancelled' /\ CancelOp(cancelled') = cancelled')]_vars

C9_Witness == cancelled /\ ctrlcTask = "done" /\ pc = "Done"

\* C10: the cancellation signal is triggered only by the ctrl-c task and only
\* after an external interrupt has reached it.
C10_CancelOnlyAfterInterrupt ==
  cancelled => (ctrlcWake = "interrupt" /\ interrupts >= 1)

\* C11 as stated: on_run is called before the ctrl-c task is spawned and
\* before the builder's run operation is started.
C11_HookBeforeSpawnAndRun ==
  [][onRunCalls' # onRunCalls =>
       (ctrlcTask = "none" /\ builderTask = "notStarted")]_vars

\* C11 amended: a supplied on_run is called exactly once, in the run verb,
\* after the builder was constructed and the ctrl-c task spawned and right
\* before the builder's run operation is started; without a hook, for any
\* other verb and on a failed start-up nothing is called.
C11_HookAfterSpawnBeforeRun ==
  /\ [](/\ onRunCalls <= 1
        /\ (~onRun \/ verb # "run" \/ builders = 0) => onRunCalls = 0
        /\ (onRun /\ builderTask # "notStarted") => onRunCalls = 1)
  /\ [][onRunCalls' # onRunCalls =>
          /\ onRun /\ verb = "run" /\ builders = 1
          /\ onRunCalls = 0 /\ onRunCalls' = 1
          /\ ctrlcTask # "none"
          /\ builderTask = "notStarted"
          /\ pc' = "StartRun"]_vars

C11_Witness == onRun /\ onRunCalls = 1 /\ builderTask = "running" /\ ctrlcTask = "waiting"

\* C12: when the configuration load fails, in the run and in the config
\* verb, run() returns an error and nothing else has happened: no tracing,
\* no cancellation signal, no telemetry, no builder, no task, nothing printed.
C12_LoadFailureIsClean ==
  (verb \in {"run", "config"} /\ fileConfig = None) =>
    /\ NoLifecycle
    /\ printed = <<>>
    /\ config = None
    /\ mergeLog = <<>>
    /\ configReads = {}
    /\ pc \in {"LoadConfig", "CfgLoad", "Done", "Killed"}
    /\ pc = "Done" => result = "Err"

C12_Witness == verb = "run" /\ fileConfig = None /\ pc = "Done" /\ result = "Err"

\* the provider factory exists and new_builder has not returned a builder
ConstructionPendingOrFailed == providers = 1 /\ builders = 0

\* C13: when builder construction fails, run() returns an error, both
\* telemetry servers stay as they were started, and the run operation is
\* never started, on_run never called, the ctrl-c task never spawned.
C13_ConstructionFailureIsFatal ==
  /\ [](ConstructionPendingOrFailed =>
          /\ redacted = "ok" /\ full = "ok"
          /\ builderTask = "notStarted"
          /\ onRunCalls = 0
          /\ ctrlcTask = "none"
          /\ builderHandle = 0
          /\ pc \in {"NewBuilder", "Done", "Killed"}
          /\ pc = "Done" => result = "Err")
  /\ [][(redacted = "ok" => redacted' = "ok") /\ (full = "ok" => full' = "ok")]_vars

C13_Witness ==
  /\ ConstructionPendingOrFailed
  /\ pc = "Done"
  /\ result = "Err"
  /\ redacted = "ok"
  /\ full = "ok"

\* C14: at most one builder and one cancellation signal per run; from
\* Running on there is exactly one builder, and its token and the ctrl-c
\* task's token are the same signal, so the builder can see the trigger.
C14_OneBuilderOneSignal ==
  /\ builders <= 1
  /\ cancelCreated <= 1
  /\ builders = 1 => (cancelCreated = 1 /\ builderHandle = 1)
  /\ ctrlcTask # "none" => ctrlcHandle = builderHandle
  /\ ReachedRunning => (builders = 1 /\ builderHandle = 1 /\ ctrlcHandle = 1)
  /\ (Alive /\ cancelled /\ builderTask = "running") => ENABLED BuilderObserveCancel

C14_Witness == ReachedRunning /\ cancelled /\ builderTask = "running"

\* C15: a run operation that ended with an error makes run() return an
\* error; the run verb returns Ok only after a run operation that ended Ok.
C15_RunErrorPropagates ==
  /\ builderTask = "doneErr" =>
       (pc \in {"AwaitRun", "Done", "Killed"} /\ (pc = "Done" => result = "Err"))
  /\ (verb = "run" /\ pc = "Done" /\ result = "Ok") => builderTask = "doneOk"

C15_Witness == pc = "Done" /\ builderTask = "doneErr" /\ result = "Err"

\* C16: run() returns Ok only with the ctrl-c task finished; so while the
\* run operation has ended Ok and ctrl_c() has neither seen an interrupt nor
\* failed, run() has not returned and the coordinator waits for the task.
C16_OkReturnNeedsListener ==
  /\ (verb = "run" /\ pc = "Done" /\ result = "Ok") =>
       (ctrlcTask = "done" /\ ctrlcWake # "none")
  /\ (builderTask = "doneOk" /\ ctrlcWake = "none") =>
       (pc \in {"AwaitRun", "AwaitCtrlc", "Killed"} /\ result = "none")
  /\ (pc = "AwaitCtrlc" /\ ctrlcTask # "done") => ~ENABLED Coordinator

C16_Witness ==
  /\ pc = "AwaitCtrlc"
  /\ builderTask = "doneOk"
  /\ interrupts = 0
  /\ ctrlcTask = "waiting"

\* the coordinator is still in configuration, telemetry start-up or construction
StartingUp ==
  pc \in {"Parse", "LoadConfig", "MergeBase", "MergeL1", "SetupTracing", "NewCancel",
          "SpawnRedacted", "AwaitRedacted", "SpawnFull", "AwaitFull", "CreateProvider",
          "NewBuilder", "SpawnCtrlc"}

\* C17: the ctrl-c task exists only after a successful construction; up to
\* and including the end of construction the signal is untriggered, also
\* when an interrupt was delivered during those phases.
C17_NoTriggerBeforeRunning ==
  /\ [](/\ ctrlcTask # "none" => builders = 1
        /\ builders = 0 => ~cancelled
        /\ StartingUp => (~cancelled /\ ctrlcTask = "none" /\ ctrlcWake = "none"))
  /\ [][builders' # builders => (~cancelled' /\ ctrlcTask' = "none")]_vars

C17_Witness == pc = "SpawnCtrlc" /\ builders = 1 /\ interrupts >= 1 /\ ~cancelled

\* load, then merge BaseCliArgs, then merge L1CliArgs
Resolve(doc, b, l) == MergeL1Args(MergeBaseArgs(doc, b), l)

\* C18: the config verb prints, and the run verb uses, the same function of
\* the document and the two deltas, reached by the same sequence of steps.
C18_ConfigAndRunResolveAlike ==
  configReads # {} =>
    /\ mergeLog = <<"base", "l1">>
    /\ DebugFmt(config[1]) = DebugFmt(Resolve(fileConfig[1], base, l1))
    /\ verb = "config" =>
         printed = << <<"config", DebugFmt(Resolve(fileConfig[1], base, l1))>> >>

C18_Witness ==
  /\ verb = "config"
  /\ pc = "Done"
  /\ result = "Ok"
  /\ l1.dry_run = Some(~fileConfig[1].dry_run)
  /\ base.jsonrpc_server_port = Some(9000)

====
